---- MODULE Spec2Model ----
(***************************************************************************)
(* Model of modules/ml/preprocessor/utils.py.                              *)
(*                                                                         *)
(*  - tika_convert_files_to_dicts: the page splice and the paragraph merge *)
(*    pass, for one converted file (specification Spec).                   *)
(*  - eval_data_from_json / eval_data_from_jsonl with                      *)
(*    _extract_docs_and_labels_from_dict (specification SpecEval).         *)
(*                                                                         *)
(* A Python str is the sequence of its characters' Unicode code points.    *)
(***************************************************************************)
EXTENDS Integers, Sequences, FiniteSets, TLC

VARIABLES
    \* ---- tika_convert_files_to_dicts ----
    text,             \* document["text"], the converter's output
    split_paragraphs, \* parameter
    merge_short,      \* parameter
    merge_lowercase,  \* parameter
    pc,               \* position in the function body
    pages,            \* text.split("\f")
    page_i,           \* index (1-based) of the next page of `for page in pages[1:]`
    paras,            \* the flat list of paragraphs
    last_para,        \* the pending paragraph
    para_i,           \* index (1-based) of the next element of `for para in paras`
    documents,        \* the result list
    last_parts,       \* history: the stripped paragraphs held in last_para
    doc_parts,        \* history: the stripped paragraphs of each emitted document
    \* ---- eval_data_from_json / eval_data_from_jsonl ----
    fn,               \* which function runs: "json" or "jsonl"
    file,             \* the SQuAD documents of the file, in order
    max_docs,         \* parameter (0 stands for None)
    batch_size,       \* parameter (0 stands for None)
    epc,              \* position in the function body; "suspended" and
                      \* "suspended_last" are the generator waiting at a yield
    line_i,           \* index (1-based) of the next document of the file
    docs,             \* the list `docs`
    labels,           \* the list `labels`
    yielded,          \* the tuples yielded so far (jsonl)
    returned          \* the tuple returned (json), as a sequence of 0 or 1 tuples

tikaVars == <<text, split_paragraphs, merge_short, merge_lowercase, pc, pages,
              page_i, paras, last_para, para_i, documents, last_parts, doc_parts>>
evalVars == <<fn, file, max_docs, batch_size, epc, line_i, docs, labels,
              yielded, returned>>
vars == <<tikaVars, evalVars>>

-----------------------------------------------------------------------------
(* Characters                                                              *)

\* The characters str.strip() strips and the regular expression \s matches
\* on a str (those with c.isspace()): \t \n \v \f \r, U+001C..U+001F, the
\* space, U+0085, U+00A0 and the Unicode space separators.
Whitespace ==
    {9, 10, 11, 12, 13, 28, 29, 30, 31, 32, 133, 160, 5760}
        \cup (8192..8202) \cup {8232, 8233, 8239, 8287, 12288}

\* The characters c with c.islower() (Unicode 14.0.0), as runs
\* <<first, last, step>>: 97..122 is a-z.
LowerRanges == <<
    <<97, 122, 1>>, <<170, 170, 1>>, <<181, 181, 1>>, <<186, 186, 1>>,
    <<223, 246, 1>>, <<248, 255, 1>>, <<257, 311, 2>>, <<312, 328, 2>>,
    <<329, 375, 2>>, <<378, 382, 2>>, <<383, 384, 1>>, <<387, 389, 2>>,
    <<392, 392, 1>>, <<396, 397, 1>>, <<402, 402, 1>>, <<405, 405, 1>>,
    <<409, 411, 1>>, <<414, 414, 1>>, <<417, 421, 2>>, <<424, 426, 2>>,
    <<427, 429, 2>>, <<432, 432, 1>>, <<436, 438, 2>>, <<441, 442, 1>>,
    <<445, 447, 1>>, <<454, 454, 1>>, <<457, 457, 1>>, <<460, 476, 2>>,
    <<477, 495, 2>>, <<496, 496, 1>>, <<499, 501, 2>>, <<505, 563, 2>>,
    <<564, 569, 1>>, <<572, 572, 1>>, <<575, 576, 1>>, <<578, 578, 1>>,
    <<583, 591, 2>>, <<592, 659, 1>>, <<661, 696, 1>>, <<704, 705, 1>>,
    <<736, 740, 1>>, <<837, 837, 1>>, <<881, 883, 2>>, <<887, 887, 1>>,
    <<890, 893, 1>>, <<912, 912, 1>>, <<940, 974, 1>>, <<976, 977, 1>>,
    <<981, 983, 1>>, <<985, 1007, 2>>, <<1008, 1011, 1>>, <<1013, 1013, 1>>,
    <<1016, 1016, 1>>, <<1019, 1020, 1>>, <<1072, 1119, 1>>,
    <<1121, 1153, 2>>, <<1163, 1215, 2>>, <<1218, 1230, 2>>,
    <<1231, 1327, 2>>, <<1376, 1416, 1>>, <<4304, 4346, 1>>,
    <<4349, 4351, 1>>, <<5112, 5117, 1>>, <<7296, 7304, 1>>,
    <<7424, 7615, 1>>, <<7681, 7829, 2>>, <<7830, 7837, 1>>,
    <<7839, 7935, 2>>, <<7936, 7943, 1>>, <<7952, 7957, 1>>,
    <<7968, 7975, 1>>, <<7984, 7991, 1>>, <<8000, 8005, 1>>,
    <<8016, 8023, 1>>, <<8032, 8039, 1>>, <<8048, 8061, 1>>,
    <<8064, 8071, 1>>, <<8080, 8087, 1>>, <<8096, 8103, 1>>,
    <<8112, 8116, 1>>, <<8118, 8119, 1>>, <<8126, 8126, 1>>,
    <<8130, 8132, 1>>, <<8134, 8135, 1>>, <<8144, 8147, 1>>,
    <<8150, 8151, 1>>, <<8160, 8167, 1>>, <<8178, 8180, 1>>,
    <<8182, 8183, 1>>, <<8305, 8305, 1>>, <<8319, 8319, 1>>,
    <<8336, 8348, 1>>, <<8458, 8458, 1>>, <<8462, 8463, 1>>,
    <<8467, 8467, 1>>, <<8495, 8495, 1>>, <<8500, 8500, 1>>,
    <<8505, 8505, 1>>, <<8508, 8509, 1>>, <<8518, 8521, 1>>,
    <<8526, 8526, 1>>, <<8560, 8575, 1>>, <<8580, 8580, 1>>,
    <<9424, 9449, 1>>, <<11312, 11359, 1>>, <<11361, 11361, 1>>,
    <<11365, 11366, 1>>, <<11368, 11372, 2>>, <<11377, 11379, 2>>,
    <<11380, 11382, 2>>, <<11383, 11389, 1>>, <<11393, 11491, 2>>,
    <<11492, 11492, 1>>, <<11500, 11502, 2>>, <<11507, 11507, 1>>,
    <<11520, 11557, 1>>, <<11559, 11559, 1>>, <<11565, 11565, 1>>,
    <<42561, 42605, 2>>, <<42625, 42651, 2>>, <<42652, 42653, 1>>,
    <<42787, 42799, 2>>, <<42800, 42801, 1>>, <<42803, 42863, 2>>,
    <<42864, 42872, 1>>, <<42874, 42876, 2>>, <<42879, 42887, 2>>,
    <<42892, 42894, 2>>, <<42897, 42899, 2>>, <<42900, 42901, 1>>,
    <<42903, 42921, 2>>, <<42927, 42927, 1>>, <<42933, 42947, 2>>,
    <<42952, 42954, 2>>, <<42961, 42969, 2>>, <<42998, 43000, 2>>,
    <<43001, 43002, 1>>, <<43824, 43866, 1>>, <<43868, 43880, 1>>,
    <<43888, 43967, 1>>, <<64256, 64262, 1>>, <<64275, 64279, 1>>,
    <<65345, 65370, 1>>, <<66600, 66639, 1>>, <<66776, 66811, 1>>,
    <<66967, 66977, 1>>, <<66979, 66993, 1>>, <<66995, 67001, 1>>,
    <<67003, 67004, 1>>, <<67456, 67456, 1>>, <<67459, 67461, 1>>,
    <<67463, 67504, 1>>, <<67506, 67514, 1>>, <<68800, 68850, 1>>,
    <<71872, 71903, 1>>, <<93792, 93823, 1>>, <<119834, 119859, 1>>,
    <<119886, 119892, 1>>, <<119894, 119911, 1>>, <<119938, 119963, 1>>,
    <<119990, 119993, 1>>, <<119995, 119997, 2>>, <<119998, 120003, 1>>,
    <<120005, 120015, 1>>, <<120042, 120067, 1>>, <<120094, 120119, 1>>,
    <<120146, 120171, 1>>, <<120198, 120223, 1>>, <<120250, 120275, 1>>,
    <<120302, 120327, 1>>, <<120354, 120379, 1>>, <<120406, 120431, 1>>,
    <<120458, 120485, 1>>, <<120514, 120538, 1>>, <<120540, 120545, 1>>,
    <<120572, 120596, 1>>, <<120598, 120603, 1>>, <<120630, 120654, 1>>,
    <<120656, 120661, 1>>, <<120688, 120712, 1>>, <<120714, 120719, 1>>,
    <<120746, 120770, 1>>, <<120772, 120777, 1>>, <<120779, 120779, 1>>,
    <<122624, 122633, 1>>, <<122635, 122654, 1>>, <<125218, 125251, 1>> >>

LowerChars ==
    UNION {{LowerRanges[i][1] + k * LowerRanges[i][3] :
               k \in 0..((LowerRanges[i][2] - LowerRanges[i][1])
                            \div LowerRanges[i][3])} :
           i \in 1..Len(LowerRanges)}

\* The characters of the raw string literal r'.?!"\'\]\)': in a raw string a
\* backslash stays in the string, so the backslash (92) is one of them:
\* . ? ! " \ ' \ ] \ )
PunctLiteral == <<46, 63, 33, 34, 92, 39, 92, 93, 92, 41>>
PunctChars == {PunctLiteral[i] : i \in 1..Len(PunctLiteral)}

\* The seven sentence-terminating characters the documentation lists:
\* . ? ! " ' ] )
TerminalChars == {46, 63, 33, 34, 39, 93, 41}

PageBreak == <<12>>         \* "\f"
ParaBreak == <<10, 10>>     \* "\n\n"

-----------------------------------------------------------------------------
(* Pure string functions                                                   *)

\* Smallest i with s[i .. i+Len(sep)-1] = sep, or 0: s.find(sep) + 1.
Find(s, sep) ==
    LET hits == {i \in 1..(Len(s) - Len(sep) + 1) :
                    SubSeq(s, i, i + Len(sep) - 1) = sep}
    IN  IF hits = {} THEN 0 ELSE CHOOSE i \in hits : \A j \in hits : i <= j

\* s.split(sep): never the empty list.
RECURSIVE Split(_, _)
Split(s, sep) ==
    LET i == Find(s, sep)
    IN  IF i = 0 THEN <<s>>
        ELSE <<SubSeq(s, 1, i - 1)>> \o Split(SubSeq(s, i + Len(sep), Len(s)), sep)

\* Mutant of Strip: the paragraph is not stripped.
StripNone(s) == s

\* s.strip()
Strip(s) ==
    LET keep == {i \in 1..Len(s) : s[i] \notin Whitespace}
    IN  IF keep = {} THEN <<>>
        ELSE LET lo == CHOOSE i \in keep : \A j \in keep : i <= j
                 hi == CHOOSE i \in keep : \A j \in keep : j <= i
             IN  SubSeq(s, lo, hi)

\* len(re.findall(r'\s+', s)): the number of maximal whitespace runs.
WsRuns(s) ==
    Cardinality({i \in 1..Len(s) :
                    /\ s[i] \in Whitespace
                    /\ (i = 1 \/ s[i - 1] \notin Whitespace)})

ShortLen == 10
MinRuns == 2

\* Mutant of MergeCond: the short-paragraph clause is missing.
MergeCondNoShort(para, lp, ms, ml) ==
    \/ WsRuns(para) < MinRuns
    \/ (/\ ml
        /\ para # <<>>
        /\ para[1] \in LowerChars
        /\ lp # <<>>
        /\ lp[Len(lp)] \notin PunctChars)

\* Mutant of MergeCond: the word-count clause compares with 1, not 2.
MergeCondOneRun(para, lp, ms, ml) ==
    \/ (ms /\ Len(para) < ShortLen)
    \/ WsRuns(para) < MinRuns - 1
    \/ (/\ ml
        /\ para # <<>>
        /\ para[1] \in LowerChars
        /\ lp # <<>>
        /\ lp[Len(lp)] \notin PunctChars)

\* merge_short and len(para) < 10 or len(re.findall(r'\s+', para)) < 2
\*   or merge_lowercase and para and para[0].islower() and last_para
\*   and last_para[-1] not in r'.?!"\'\]\)'
MergeCond(para, lp, ms, ml) ==
    \/ (ms /\ Len(para) < ShortLen)
    \/ WsRuns(para) < MinRuns
    \/ (/\ ml
        /\ para # <<>>
        /\ para[1] \in LowerChars
        /\ lp # <<>>
        /\ lp[Len(lp)] \notin PunctChars)

\* last_para += ' ' + para
MergeInto(lp, para) == lp \o <<32>> \o para

\* Mutant of Splice: the pending paragraph of the previous page is lost.
SpliceDrop(lp, first) == first

\* Mutant of Splice: the two halves are joined without a space.
SpliceNoSpace(lp, first) == lp \o first

\* page_paras[0] = last_para + ' ' + page_paras[0]
Splice(lp, first) == lp \o <<32>> \o first

\* meta = document["meta"] or {}; meta["name"] = path.name
Meta == [name |-> "file.pdf"]

Doc(t) == [text |-> t, meta |-> Meta]

\* Mutant of Flush: the `if last_para` guard is missing.
FlushAlways(ds, lp) == Append(ds, Doc(lp))

\* if last_para: documents.append({"text": last_para, "meta": meta})
Flush(ds, lp) == IF lp # <<>> THEN Append(ds, Doc(lp)) ELSE ds

\* The history kept beside Flush: the paragraphs of the document emitted.
FlushParts(dp, lp, parts) == IF lp # <<>> THEN Append(dp, parts) ELSE dp

Front(s) == SubSeq(s, 1, Len(s) - 1)

-----------------------------------------------------------------------------
(* Inputs of tika_convert_files_to_dicts                                   *)

MaxChunks == 4

\* " "
ChunkBlank == <<32>>
\* "\xa0", a no-break space
ChunkNbsp == <<160>>
\* "Hi"
ChunkShort == <<72, 105>>
\* "A b c"
ChunkShortWords == <<65, 32, 98, 32, 99>>
\* "Ab cd efg."
ChunkUpper == <<65, 98, 32, 99, 100, 32, 101, 102, 103, 46>>
\* "ab cd efgh"
ChunkLower == <<97, 98, 32, 99, 100, 32, 101, 102, 103, 104>>
\* "Ab cd efg\"
ChunkBackslash == <<65, 98, 32, 99, 100, 32, 101, 102, 103, 92>>
\* "\xe9b\x0bcd\x0befgh": starts with e-acute, the words are separated by
\* vertical tabs
ChunkAccent == <<233, 98, 11, 99, 100, 11, 101, 102, 103, 104>>

\* A text is a concatenation of at most MaxChunks of these pieces.
Chunks ==
    {PageBreak, ParaBreak, ChunkBlank, ChunkNbsp, ChunkShort, ChunkShortWords,
     ChunkUpper, ChunkLower, ChunkBackslash, ChunkAccent}

RECURSIVE TextsUpTo(_)
TextsUpTo(n) ==
    IF n = 0 THEN {<<>>}
    ELSE LET prev == TextsUpTo(n - 1)
         IN  prev \cup {t \o c : t \in prev, c \in Chunks}

\* "Hello world.\n\nthis continues.\n\nA New Topic Here Clearly."
ExampleLowercase ==
    <<72, 101, 108, 108, 111, 32, 119, 111, 114, 108, 100, 46, 10, 10,
      116, 104, 105, 115, 32, 99, 111, 110, 116, 105, 110, 117, 101, 115, 46,
      10, 10, 65, 32, 78, 101, 119, 32, 84, 111, 112, 105, 99, 32,
      72, 101, 114, 101, 32, 67, 108, 101, 97, 114, 108, 121, 46>>
\* "...end of pa\fragraph one.\n\nSecond paragraph."
ExamplePages ==
    <<46, 46, 46, 101, 110, 100, 32, 111, 102, 32, 112, 97, 12,
      114, 97, 103, 114, 97, 112, 104, 32, 111, 110, 101, 46, 10, 10,
      83, 101, 99, 111, 110, 100, 32, 112, 97, 114, 97, 103, 114, 97,
      112, 104, 46>>
\* "   \n\n  \n\n"
ExampleBlank == <<32, 32, 32, 10, 10, 32, 32, 10, 10>>

\* Three pages: a short first paragraph, a paragraph split by the first page
\* break, blank paragraphs, and lowercase and backslash-ended paragraphs.
\* "Hi\n\nAb cd efg.\n\nHi\fab cd efgh\n\n \n\nAb cd efg\\n\nab cd efgh\f\n\nA b c"
ExampleMixed ==
    <<72, 105, 10, 10,
      65, 98, 32, 99, 100, 32, 101, 102, 103, 46, 10, 10, 72, 105, 12,
      97, 98, 32, 99, 100, 32, 101, 102, 103, 104, 10, 10, 32, 10, 10,
      65, 98, 32, 99, 100, 32, 101, 102, 103, 92, 10, 10,
      97, 98, 32, 99, 100, 32, 101, 102, 103, 104, 12,
      10, 10, 65, 32, 98, 32, 99>>

ExampleTexts == {ExampleLowercase, ExamplePages, ExampleBlank, ExampleMixed}

Inputs == TextsUpTo(MaxChunks) \cup ExampleTexts

-----------------------------------------------------------------------------
(* tika_convert_files_to_dicts, for one file                               *)

EvalIdle ==
    /\ fn = "none" /\ file = <<>> /\ max_docs = 0 /\ batch_size = 0
    /\ epc = "idle" /\ line_i = 1 /\ docs = <<>> /\ labels = <<>>
    /\ yielded = <<>> /\ returned = <<>>

Init ==
    /\ text \in Inputs
    /\ split_paragraphs \in BOOLEAN
    /\ merge_short \in BOOLEAN
    /\ merge_lowercase \in BOOLEAN
    /\ pc = "start"
    /\ pages = <<>>
    /\ page_i = 1
    /\ paras = <<>>
    /\ last_para = <<>>
    /\ para_i = 1
    /\ documents = <<>>
    /\ last_parts = <<>>
    /\ doc_parts = <<>>
    /\ EvalIdle

\* pages = text.split("\f"); if split_paragraphs: ... else: ...
SplitPages ==
    /\ pc = "start"
    /\ pages' = Split(text, PageBreak)
    /\ pc' = IF split_paragraphs THEN "first_page" ELSE "no_split"
    /\ UNCHANGED <<text, split_paragraphs, merge_short, merge_lowercase, page_i,
                   paras, last_para, para_i, documents, last_parts, doc_parts>>
    /\ UNCHANGED evalVars

\* else: documents.append({"text": text, "meta": meta})   (clean_func is None)
NoSplit ==
    /\ pc = "no_split"
    /\ documents' = Append(documents, Doc(text))
    /\ doc_parts' = Append(doc_parts, <<>>)
    /\ pc' = "done"
    /\ UNCHANGED <<text, split_paragraphs, merge_short, merge_lowercase, pages,
                   page_i, paras, last_para, para_i, last_parts>>
    /\ UNCHANGED evalVars

\* if pages: paras = pages[0].split("\n\n"); last_para = paras.pop(-1) if paras else ''
FirstPage ==
    /\ pc = "first_page"
    /\ IF pages # <<>>
       THEN LET ps == Split(pages[1], ParaBreak)
            IN  /\ last_para' = IF ps # <<>> THEN ps[Len(ps)] ELSE <<>>
                /\ paras' = IF ps # <<>> THEN Front(ps) ELSE ps
                /\ page_i' = 2
                /\ pc' = "pages"
       ELSE /\ pc' = "done"
            /\ UNCHANGED <<last_para, paras, page_i>>
    /\ UNCHANGED <<text, split_paragraphs, merge_short, merge_lowercase, pages,
                   para_i, documents, last_parts, doc_parts>>
    /\ UNCHANGED evalVars

\* One iteration of `for page in pages[1:]`.
NextPage ==
    /\ pc = "pages"
    /\ page_i <= Len(pages)
    /\ LET page_paras == Split(pages[page_i], ParaBreak)
           spliced == [page_paras EXCEPT ![1] = Splice(last_para, @)]
       IN  IF page_paras # <<>>
           THEN /\ last_para' = spliced[Len(spliced)]
                /\ paras' = paras \o Front(spliced)
           ELSE UNCHANGED <<last_para, paras>>
    /\ page_i' = page_i + 1
    /\ UNCHANGED <<text, split_paragraphs, merge_short, merge_lowercase, pages,
                   pc, para_i, documents, last_parts, doc_parts>>
    /\ UNCHANGED evalVars

\* if last_para: paras.append(last_para)
\* if paras: last_para = ''; for para in paras: ...
EndPages ==
    /\ pc = "pages"
    /\ page_i > Len(pages)
    /\ LET all == IF last_para # <<>> THEN Append(paras, last_para) ELSE paras
       IN  /\ paras' = all
           /\ IF all # <<>>
              THEN /\ last_para' = <<>>
                   /\ pc' = "merge"
              ELSE /\ UNCHANGED last_para
                   /\ pc' = "done"
    /\ para_i' = 1
    /\ UNCHANGED <<text, split_paragraphs, merge_short, merge_lowercase, pages,
                   page_i, documents, last_parts, doc_parts>>
    /\ UNCHANGED evalVars

\* para = para.strip(); if not para: continue
SkipPara ==
    /\ pc = "merge"
    /\ para_i <= Len(paras)
    /\ Strip(paras[para_i]) = <<>>
    /\ para_i' = para_i + 1
    /\ UNCHANGED <<text, split_paragraphs, merge_short, merge_lowercase, pages,
                   page_i, paras, last_para, pc, documents, last_parts, doc_parts>>
    /\ UNCHANGED evalVars

\* The merge branch: last_para += ' ' + para
MergePara ==
    /\ pc = "merge"
    /\ para_i <= Len(paras)
    /\ LET para == Strip(paras[para_i])
       IN  /\ para # <<>>
           /\ MergeCond(para, last_para, merge_short, merge_lowercase)
           /\ last_para' = MergeInto(last_para, para)
           /\ last_parts' = Append(last_parts, [para |-> para, merged |-> TRUE])
    /\ para_i' = para_i + 1
    /\ UNCHANGED <<text, split_paragraphs, merge_short, merge_lowercase, pages,
                   page_i, paras, pc, documents, doc_parts>>
    /\ UNCHANGED evalVars

\* The else branch: flush the pending paragraph, then last_para = para
NewPara ==
    /\ pc = "merge"
    /\ para_i <= Len(paras)
    /\ LET para == Strip(paras[para_i])
       IN  /\ para # <<>>
           /\ ~MergeCond(para, last_para, merge_short, merge_lowercase)
           /\ documents' = Flush(documents, last_para)
           /\ doc_parts' = FlushParts(doc_parts, last_para, last_parts)
           /\ last_para' = para
           /\ last_parts' = <<[para |-> para, merged |-> FALSE]>>
    /\ para_i' = para_i + 1
    /\ UNCHANGED <<text, split_paragraphs, merge_short, merge_lowercase, pages,
                   page_i, paras, pc>>
    /\ UNCHANGED evalVars

\* After the loop ("don't forget the last one"): flush the pending paragraph.
FinalFlush ==
    /\ pc = "merge"
    /\ para_i > Len(paras)
    /\ documents' = Flush(documents, last_para)
    /\ doc_parts' = FlushParts(doc_parts, last_para, last_parts)
    /\ pc' = "done"
    /\ UNCHANGED <<text, split_paragraphs, merge_short, merge_lowercase, pages,
                   page_i, paras, last_para, para_i, last_parts>>
    /\ UNCHANGED evalVars

Next ==
    \/ SplitPages
    \/ NoSplit
    \/ FirstPage
    \/ NextPage
    \/ EndPages
    \/ SkipPara
    \/ MergePara
    \/ NewPara
    \/ FinalFlush

Spec == Init /\ [][Next]_vars

-----------------------------------------------------------------------------
(* Properties of tika_convert_files_to_dicts                               *)

IsInk(c) == c \notin Whitespace

\* s with every whitespace character (page breaks included) deleted.
NoWs(s) == SelectSeq(s, IsInk)

RECURSIVE ConcatTexts(_)
ConcatTexts(ds) ==
    IF ds = <<>> THEN <<>> ELSE ds[1].text \o ConcatTexts(Tail(ds))

OutTexts == [i \in 1..Len(documents) |-> documents[i].text]

IsPrefix(p, s) == Len(p) <= Len(s) /\ SubSeq(s, 1, Len(p)) = p

\* The stripped paragraph the merge loop is about to handle, when there is one.
AtPara == pc = "merge" /\ para_i <= Len(paras)
CurPara == Strip(paras[para_i])

\* C1: with split_paragraphs, the emitted texts, concatenated in output order
\* and with whitespace deleted, are the input text with whitespace and page
\* breaks deleted: nothing is dropped, duplicated or reordered.
C1_ContentPreserved ==
    (pc = "done" /\ split_paragraphs)
        => NoWs(ConcatTexts(documents)) = NoWs(text)

C1_Witness ==
    /\ pc = "done" /\ split_paragraphs
    /\ Len(pages) >= 3
    /\ Len(documents) >= 2
    /\ \E i \in 1..Len(doc_parts) : Len(doc_parts[i]) >= 2
    /\ \E i \in 1..Len(paras) : Strip(paras[i]) = <<>>

\* The paragraphs of the merge pass's list that are not blank.
NonBlank(ps) == {i \in 1..Len(ps) : Strip(ps[i]) # <<>>}

ShortAlone(parts) == Len(parts) = 1 /\ Len(parts[1].para) < ShortLen

\* C2 as stated: with split_paragraphs and merge_short, when the document has
\* at least two non-blank paragraphs, no emitted document consists of a single
\* paragraph shorter than 10 characters.
C2_NoShortAlone ==
    (pc = "done" /\ split_paragraphs /\ merge_short
        /\ Cardinality(NonBlank(paras)) >= 2)
        => \A i \in 1..Len(doc_parts) : ~ShortAlone(doc_parts[i])

\* C2 as amended: with split_paragraphs and merge_short, only the first
\* emitted document can consist of a single paragraph shorter than 10
\* characters; no later one does.
C2_ShortAloneOnlyFirst ==
    (split_paragraphs /\ merge_short)
        => \A i \in 2..Len(doc_parts) : ~ShortAlone(doc_parts[i])

C2_Witness ==
    /\ pc = "done" /\ split_paragraphs /\ merge_short
    /\ Len(doc_parts) >= 2
    /\ \E i \in 2..Len(doc_parts) :
          /\ Len(doc_parts[i]) >= 2
          /\ \E j \in 2..Len(doc_parts[i]) :
                Len(doc_parts[i][j].para) < ShortLen

\* C3 as stated: with merge_lowercase, a paragraph starting with a lowercase
\* letter that meets a non-empty pending paragraph whose last character is
\* none of . ? ! " ' ] ) is appended to it and nothing is flushed.
C3_LowercaseMerged ==
    [][ (/\ AtPara
         /\ split_paragraphs /\ merge_lowercase
         /\ CurPara # <<>>
         /\ CurPara[1] \in LowerChars
         /\ last_para # <<>>
         /\ last_para[Len(last_para)] \notin TerminalChars)
        => (/\ last_para' = last_para \o <<32>> \o CurPara
            /\ documents' = documents) ]_vars

\* C4 as stated: a paragraph that meets the merge condition while the pending
\* paragraph is empty becomes the pending paragraph, with no separator
\* before it.
C4_FirstMergeDirect ==
    [][ (/\ AtPara
         /\ split_paragraphs
         /\ CurPara # <<>>
         /\ MergeCond(CurPara, last_para, merge_short, merge_lowercase)
         /\ last_para = <<>>)
        => last_para' = CurPara ]_vars

\* "...end of paragraph one."
ExamplePagesOut1 ==
    <<46, 46, 46, 101, 110, 100, 32, 111, 102, 32, 112, 97, 114, 97,
      103, 114, 97, 112, 104, 32, 111, 110, 101, 46>>
\* "Second paragraph."
ExamplePagesOut2 ==
    <<83, 101, 99, 111, 110, 100, 32, 112, 97, 114, 97, 103, 114, 97,
      112, 104, 46>>
\* "...end of pa ragraph one. Second paragraph."
ExamplePagesGot ==
    <<46, 46, 46, 101, 110, 100, 32, 111, 102, 32, 112, 97, 32, 114,
      97, 103, 114, 97, 112, 104, 32, 111, 110, 101, 46, 32, 83, 101,
      99, 111, 110, 100, 32, 112, 97, 114, 97, 103, 114, 97, 112, 104,
      46>>

ExamplePagesDone ==
    /\ pc = "done" /\ text = ExamplePages
    /\ split_paragraphs /\ merge_short /\ merge_lowercase

\* C5 as stated: the two-page example yields "...end of paragraph one."
\* followed by "Second paragraph.".
C5_ExampleAsStated ==
    ExamplePagesDone => OutTexts = <<ExamplePagesOut1, ExamplePagesOut2>>

\* C5 as amended: the two-page example yields the single text
\* "...end of pa ragraph one. Second paragraph.": the splice puts a space at
\* the page boundary, and "Second paragraph." has one whitespace run, so it
\* is merged into the pending paragraph.
C5_ExampleActual ==
    ExamplePagesDone => OutTexts = <<ExamplePagesGot>>

C5_Witness ==
    /\ ExamplePagesDone
    /\ Len(pages) = 2
    /\ Len(documents) = 1

\* C6 as stated: every emitted document has a non-empty text, for every
\* setting of split_paragraphs.
C6_NeverEmpty ==
    \A i \in 1..Len(documents) : documents[i].text # <<>>

\* C6 as amended: with split_paragraphs every emitted document has a
\* non-empty text; without it the one document is the input text, which is
\* empty exactly when the input text is empty.
C6_EmptyOnlyUnsplitEmptyInput ==
    \A i \in 1..Len(documents) :
        /\ split_paragraphs => documents[i].text # <<>>
        /\ ~split_paragraphs => documents[i].text = text

C6_Witness ==
    /\ pc = "done" /\ split_paragraphs
    /\ Len(documents) >= 2
    /\ \E i \in 1..Len(paras) : Strip(paras[i]) = <<>>

\* C7: with split_paragraphs, a text made only of whitespace, paragraph
\* breaks and page breaks yields no document.
C7_BlankYieldsNothing ==
    (split_paragraphs /\ NoWs(text) = <<>>) => documents = <<>>

C7_Witness ==
    /\ pc = "done" /\ split_paragraphs
    /\ NoWs(text) = <<>>
    /\ Len(pages) >= 2
    /\ \E i \in 1..Len(paras) : paras[i] # <<>>
    /\ documents = <<>>

RECURSIVE CountNonMerged(_)
CountNonMerged(parts) ==
    IF parts = <<>> THEN 0
    ELSE (IF parts[1].merged THEN 0 ELSE 1) + CountNonMerged(Tail(parts))

RECURSIVE CountNonMergedAll(_)
CountNonMergedAll(dp) ==
    IF dp = <<>> THEN 0
    ELSE CountNonMerged(dp[1]) + CountNonMergedAll(Tail(dp))

\* C10: with split_paragraphs, every emitted document but the first begins
\* with a paragraph that did not meet the merge condition (at least 2
\* whitespace runs, and at least 10 characters under merge_short) and holds
\* after it only paragraphs that met it; so there are at most as many
\* documents as such paragraphs, plus one.
C10_LaterDocsStartUnmerged ==
    split_paragraphs =>
        /\ \A i \in 2..Len(documents) :
              LET parts == doc_parts[i]
              IN  /\ parts # <<>>
                  /\ ~parts[1].merged
                  /\ IsPrefix(parts[1].para, documents[i].text)
                  /\ WsRuns(parts[1].para) >= MinRuns
                  /\ (merge_short => Len(parts[1].para) >= ShortLen)
                  /\ \A j \in 2..Len(parts) : parts[j].merged
        /\ Len(documents) <= CountNonMergedAll(doc_parts) + 1

C10_Witness ==
    /\ pc = "done" /\ split_paragraphs
    /\ Len(documents) >= 3
    /\ \E i \in 2..Len(documents) : Len(doc_parts[i]) >= 2
    /\ doc_parts[1][1].merged

-----------------------------------------------------------------------------
(* eval_data_from_json, eval_data_from_jsonl                               *)
(*                                                                         *)
(* A SQuAD document is the sequence of its paragraphs; a paragraph is the  *)
(* sequence of its questions; a question is its number of answers.         *)
(* A Document is identified by <<line, paragraph>>, standing for the id    *)
(* the Document constructor draws.                                         *)

MaxLines == 3
MaxParas == 2
MaxParam == 2

SquadParagraphs == {<<>>, <<0>>, <<2>>}

RECURSIVE SeqsUpTo(_, _)
SeqsUpTo(S, n) ==
    IF n = 0 THEN {<<>>}
    ELSE LET prev == SeqsUpTo(S, n - 1)
         IN  prev \cup {Append(q, x) : q \in prev, x \in S}

SquadDocuments == SeqsUpTo(SquadParagraphs, MaxParas)
SquadFiles == SeqsUpTo(SquadDocuments, MaxLines)

\* The labels of one question: one per answer, or one with answer "" when
\* the question has no answers.
QaLabels(id, q, n) ==
    IF n > 0
    THEN [a \in 1..n |-> [document_id |-> id, qa |-> q, answer |-> a]]
    ELSE <<[document_id |-> id, qa |-> q, answer |-> 0]>>

RECURSIVE ParaLabels(_, _, _)
ParaLabels(id, qas, q) ==
    IF q > Len(qas) THEN <<>>
    ELSE QaLabels(id, q, qas[q]) \o ParaLabels(id, qas, q + 1)

\* _extract_docs_and_labels_from_dict: one Document per paragraph.
ExtractDocs(l, d) == [p \in 1..Len(d) |-> [id |-> <<l, p>>]]

RECURSIVE ExtractLabelsFrom(_, _, _)
ExtractLabelsFrom(l, d, p) ==
    IF p > Len(d) THEN <<>>
    ELSE ParaLabels(<<l, p>>, d[p], 1) \o ExtractLabelsFrom(l, d, p + 1)

ExtractLabels(l, d) == ExtractLabelsFrom(l, d, 1)

\* if max_docs: if len(docs) > max_docs: break
BreakCond(ds, md) == md # 0 /\ Len(ds) > md

\* if batch_size is not None: if len(docs) >= batch_size: yield
YieldCond(ds, bs) == bs # 0 /\ Len(ds) >= bs

TikaIdle ==
    /\ text = <<>> /\ split_paragraphs = FALSE /\ merge_short = FALSE
    /\ merge_lowercase = FALSE /\ pc = "idle" /\ pages = <<>> /\ page_i = 1
    /\ paras = <<>> /\ last_para = <<>> /\ para_i = 1 /\ documents = <<>>
    /\ last_parts = <<>> /\ doc_parts = <<>>

InitEval ==
    /\ fn \in {"json", "jsonl"}
    /\ file \in SquadFiles
    /\ max_docs \in 0..MaxParam
    /\ batch_size \in 0..MaxParam
    /\ (fn = "json" => batch_size = 0)
    /\ epc = "start"
    /\ line_i = 1
    /\ docs = <<>>
    /\ labels = <<>>
    /\ yielded = <<>>
    /\ returned = <<>>
    /\ TikaIdle

\* with open(filename) ...: enter the loop over the file's documents.
\* eval_data_from_json first reads data["data"][0].
EvalOpen ==
    /\ epc = "start"
    /\ (fn = "json" => file # <<>>)
    /\ epc' = "loop"
    /\ UNCHANGED <<fn, file, max_docs, batch_size, line_i, docs, labels,
                   yielded, returned>>
    /\ UNCHANGED tikaVars

\* data["data"][0] of an empty list raises IndexError.
JsonRaise ==
    /\ epc = "start"
    /\ fn = "json"
    /\ file = <<>>
    /\ epc' = "raised"
    /\ UNCHANGED <<fn, file, max_docs, batch_size, line_i, docs, labels,
                   yielded, returned>>
    /\ UNCHANGED tikaVars

\* One iteration of eval_data_from_json's loop that does not break.
JsonLoad ==
    /\ epc = "loop"
    /\ fn = "json"
    /\ line_i <= Len(file)
    /\ ~BreakCond(docs, max_docs)
    /\ docs' = docs \o ExtractDocs(line_i, file[line_i])
    /\ labels' = labels \o ExtractLabels(line_i, file[line_i])
    /\ line_i' = line_i + 1
    /\ UNCHANGED <<fn, file, max_docs, batch_size, epc, yielded, returned>>
    /\ UNCHANGED tikaVars

\* The loop ends (exhausted, or break) and the function returns docs, labels.
JsonReturn ==
    /\ epc = "loop"
    /\ fn = "json"
    /\ (line_i > Len(file) \/ BreakCond(docs, max_docs))
    /\ returned' = <<[docs |-> docs, labels |-> labels]>>
    /\ epc' = "done"
    /\ UNCHANGED <<fn, file, max_docs, batch_size, line_i, docs, labels,
                   yielded>>
    /\ UNCHANGED tikaVars

\* One iteration of eval_data_from_jsonl's loop that does not break and
\* does not yield.
JsonlLoad ==
    /\ epc = "loop"
    /\ fn = "jsonl"
    /\ line_i <= Len(file)
    /\ ~BreakCond(docs, max_docs)
    /\ LET ds == docs \o ExtractDocs(line_i, file[line_i])
           ls == labels \o ExtractLabels(line_i, file[line_i])
       IN  /\ ~YieldCond(ds, batch_size)
           /\ docs' = ds
           /\ labels' = ls
    /\ line_i' = line_i + 1
    /\ UNCHANGED <<fn, file, max_docs, batch_size, epc, yielded, returned>>
    /\ UNCHANGED tikaVars

\* One iteration of eval_data_from_jsonl's loop up to `yield docs, labels`:
\* the generator hands the batch out and is suspended there, with docs and
\* labels still holding the batch.
JsonlYield ==
    /\ epc = "loop"
    /\ fn = "jsonl"
    /\ line_i <= Len(file)
    /\ ~BreakCond(docs, max_docs)
    /\ LET ds == docs \o ExtractDocs(line_i, file[line_i])
           ls == labels \o ExtractLabels(line_i, file[line_i])
       IN  /\ YieldCond(ds, batch_size)
           /\ yielded' = Append(yielded, [docs |-> ds, labels |-> ls])
           /\ docs' = ds
           /\ labels' = ls
    /\ line_i' = line_i + 1
    /\ epc' = "suspended"
    /\ UNCHANGED <<fn, file, max_docs, batch_size, returned>>
    /\ UNCHANGED tikaVars

\* The consumer asks for the next tuple: docs = []; labels = [] and the loop
\* goes on.
JsonlResume ==
    /\ epc = "suspended"
    /\ docs' = <<>>
    /\ labels' = <<>>
    /\ epc' = "loop"
    /\ UNCHANGED <<fn, file, max_docs, batch_size, line_i, yielded, returned>>
    /\ UNCHANGED tikaVars

\* The consumer stops after a batch (it closes or drops the generator): the
\* reset never runs.
JsonlClose ==
    /\ epc = "suspended"
    /\ epc' = "closed"
    /\ UNCHANGED <<fn, file, max_docs, batch_size, line_i, docs, labels,
                   yielded, returned>>
    /\ UNCHANGED tikaVars

\* The loop ends (exhausted, or break) and the generator yields what is left
\* (the last line of the function) and is suspended there.
JsonlFinal ==
    /\ epc = "loop"
    /\ fn = "jsonl"
    /\ (line_i > Len(file) \/ BreakCond(docs, max_docs))
    /\ yielded' = Append(yielded, [docs |-> docs, labels |-> labels])
    /\ epc' = "suspended_last"
    /\ UNCHANGED <<fn, file, max_docs, batch_size, line_i, docs, labels,
                   returned>>
    /\ UNCHANGED tikaVars

\* After the last yield nothing is left to run: the generator ends when the
\* consumer asks for more or closes it.
JsonlEnd ==
    /\ epc = "suspended_last"
    /\ epc' = "done"
    /\ UNCHANGED <<fn, file, max_docs, batch_size, line_i, docs, labels,
                   yielded, returned>>
    /\ UNCHANGED tikaVars

NextEval ==
    \/ EvalOpen
    \/ JsonRaise
    \/ JsonLoad
    \/ JsonReturn
    \/ JsonlLoad
    \/ JsonlYield
    \/ JsonlResume
    \/ JsonlClose
    \/ JsonlFinal
    \/ JsonlEnd

SpecEval == InitEval /\ [][NextEval]_vars

-----------------------------------------------------------------------------
(* Properties of eval_data_from_json, eval_data_from_jsonl                 *)

RECURSIVE TotalDocs(_)
TotalDocs(ys) ==
    IF ys = <<>> THEN 0 ELSE Len(ys[1].docs) + TotalDocs(Tail(ys))

RECURSIVE AllDocs(_, _)
AllDocs(f, l) ==
    IF l > Len(f) THEN <<>> ELSE ExtractDocs(l, f[l]) \o AllDocs(f, l + 1)

RECURSIVE AllLabels(_, _)
AllLabels(f, l) ==
    IF l > Len(f) THEN <<>> ELSE ExtractLabels(l, f[l]) \o AllLabels(f, l + 1)

DocIds(ds) == {ds[i].id : i \in 1..Len(ds)}
LabelDocIds(ls) == {ls[i].document_id : i \in 1..Len(ls)}

\* C8 as stated: with max_docs = N > 0, eval_data_from_json returns at most
\* N Documents and eval_data_from_jsonl yields at most N Documents in total.
C8_MaxDocsBounds ==
    max_docs > 0 =>
        /\ \A i \in 1..Len(returned) : Len(returned[i].docs) <= max_docs
        /\ TotalDocs(yielded) <= max_docs

\* The generator has yielded its last tuple (the one of the final yield).
FinalYielded == epc \in {"suspended_last", "done"}

\* C9 as stated: with batch_size = B, every tuple eval_data_from_jsonl
\* yields, other than the final one, holds exactly B Documents and exactly
\* the labels of those Documents; with batch_size None (and no max_docs) it
\* yields exactly one tuple, holding all Documents and Labels.
C9_BatchesOfB ==
    fn = "jsonl" =>
        /\ batch_size > 0 =>
              \A i \in 1..Len(yielded) :
                 /\ (i < Len(yielded) \/ ~FinalYielded)
                        => Len(yielded[i].docs) = batch_size
                 /\ LabelDocIds(yielded[i].labels) \subseteq DocIds(yielded[i].docs)
        /\ (batch_size = 0 /\ max_docs = 0) =>
              /\ ~FinalYielded => yielded = <<>>
              /\ FinalYielded =>
                    yielded = <<[docs |-> AllDocs(file, 1),
                                 labels |-> AllLabels(file, 1)]>>

====
